---- MODULE Spec2Model ----
(***************************************************************************)
(* Model of the riscv64 recursive page table of src/paging/recursive.rs:   *)
(* the walker (create_p1_if_not_exist, edit_p1, is_mapped) with its        *)
(* READABLE/WRITABLE toggle and sfence_vma_all protocol, and the Mapper    *)
(* operations map_to, unmap, translate_page and identity_map built on it.  *)
(*                                                                         *)
(* Physical memory is a function from frame numbers to page tables.  The   *)
(* walker's code is transcribed statement by statement into instruction    *)
(* sequences (one instruction per source statement, in source order) that  *)
(* a small interpreter executes; a table reached through a recursive alias *)
(* is resolved at the time of each access from the entries on its path.    *)
(***************************************************************************)
EXTENDS Integers, Sequences, FiniteSets, TLC

\* ------------------------------------------------------------------ bounds

\* Entries per page table (512 on the hardware), scaled down.
NumIdx == 4
\* Frames the frame allocator can hand out before it is exhausted for good.
NumFrames == 4
\* Data frames are 0 .. MaxDataFrame.
MaxDataFrame == 1
\* Public operations per behaviour.
MaxOps == 2

\* ------------------------------------------------------- frames and indices

Idx == 0 .. (NumIdx - 1)

\* self.recursive_index; root[recursive_index] and root[recursive_index + 1]
\* are the two reserved slots.
recursive_index == NumIdx - 2

DataFrames == 0 .. MaxDataFrame
\* satp::read().frame(): the frame of the active root table.
RootFrame == MaxDataFrame + 1
PoolFrames == (RootFrame + 1) .. (RootFrame + NumFrames)
AllFrames == 0 .. (RootFrame + NumFrames)

\* The three PageTableFlags the walker reads and writes.
VALID == "V"
READABLE == "R"
WRITABLE == "W"
RW == {READABLE, WRITABLE}

\* ------------------------------------------------ page table entry primitives

\* PageTableEntry: a frame number and a flag set, packed in one word.
Entry(frame, flags) == [frame |-> frame, flags |-> flags]

\* The all-zero word, which PageTable::zero writes into every slot.
ZeroEntry == Entry(0, {})

\* PageTableEntry::is_unused: the word is zero.
is_unused(e) == e = ZeroEntry

\* PageTableEntry::set(frame, flags): overwrite the whole word.
set(frame, flags) == Entry(frame, flags)

\* PageTableEntry::set_unused.
set_unused == ZeroEntry

\* flags_mut().insert(F::READABLE | F::WRITABLE)
insert_RW(e) == [e EXCEPT !.flags = @ \cup RW]

\* flags_mut().remove(F::READABLE | F::WRITABLE)
remove_RW(e) == [e EXCEPT !.flags = @ \ RW]

\* PageTable::zero
ZeroTable == [i \in Idx |-> ZeroEntry]

\* What a frame that was never zeroed may hold: stale words that look like
\* present entries.
GarbageTable == [i \in Idx |-> Entry(0, {VALID, READABLE, WRITABLE})]

\* The hardware's reading of an entry during a walk: a pointer to the next
\* table (valid, neither readable nor writable) or a leaf.
IsPointer(e) == VALID \in e.flags /\ e.flags \cap RW = {}
IsLeaf(e) == VALID \in e.flags /\ RW \subseteq e.flags

\* ---------------------------------------------------------- the walker's state

(* The state of one call: the memory it works on, the allocator it was     *)
(* handed, its arguments and its position.                                 *)
(*   mem      physical memory, frame -> table                              *)
(*   next     the frame the allocator hands out next                       *)
(*   budget   how many more frames the allocator passed to this call gives *)
(*   p        the page, as <<p4_index, p3_index, p2_index, p1_index>>      *)
(*   frame, flags   the frame and flags arguments of map_to                *)
(*   f        which closure edit_p1 was given                              *)
(*   leaf     the level of the table the closure is given: 1, the level-1  *)
(*            table, in the 4-level walker                                 *)
(*   pc, status     position in the running function; "run", "ret",        *)
(*            "panic" (a failed assertion) or "fault" (an alias            *)
(*            dereferenced without the permissions the hardware needs)     *)
(*   reg      the frame returned by the last allocator.alloc()             *)
(*   ret, rframe    the returned value and the frame it carries            *)
(*   allocs   calls of allocator.alloc() made so far                       *)
(*   denied   allocator.alloc() returned None                              *)
(*   stale    levels whose path entry changed since the last sfence        *)
(*   unfenced an alias was dereferenced while an entry on its path was     *)
(*            stale                                                        *)
(*   toggled  READABLE | WRITABLE was inserted or removed since the last   *)
(*            sfence                                                       *)
(*   tlb      the translations of data pages the TLB holds, each a page    *)
(*            with the leaf entry that was cached for it                   *)
(***************************************************************************)
NewCall(mem, next, budget, p, frame, flags) ==
    [mem |-> mem, next |-> next, budget |-> budget, p |-> p, frame |-> frame,
     flags |-> flags, f |-> "none", leaf |-> 1, pc |-> 1, status |-> "run",
     reg |-> 0,
     ret |-> "none", rframe |-> 0, allocs |-> 0, denied |-> FALSE,
     stale |-> {}, unfenced |-> FALSE, toggled |-> FALSE, tlb |-> {}]

\* page.p4_index() .. page.p1_index(): the index of the path at a level.
PathIndex(m, lv) == m.p[5 - lv]

\* The frame of the table that holds the path's entry of a level: the root
\* for level 4, below it the frame named by the entry one level up
\* (from_page_table_indices(l, l, l, p4) and so on, followed by the MMU).
TableFrame(m, lv) ==
    LET f3 == m.mem[RootFrame][m.p[1]].frame
        f2 == m.mem[f3][m.p[2]].frame
        f1 == m.mem[f2][m.p[3]].frame
    IN  CASE lv = 4 -> RootFrame
          [] lv = 3 -> f3
          [] lv = 2 -> f2
          [] lv = 1 -> f1

PathEntry(m, lv) == m.mem[TableFrame(m, lv)][PathIndex(m, lv)]

\* Whether the hardware lets software read and write the table of a level
\* through its recursive alias: every entry above the last step is a
\* pointer and the last step is a readable and writable leaf.
Dereferenceable(m, lv) ==
    LET root == m.mem[RootFrame]
        rec == IsPointer(root[recursive_index])
                 /\ root[recursive_index].frame = RootFrame
    IN  CASE lv = 4 -> rec /\ IsLeaf(root[recursive_index + 1])
                           /\ root[recursive_index + 1].frame = RootFrame
          [] lv = 3 -> rec /\ IsLeaf(PathEntry(m, 4))
          [] lv = 2 -> rec /\ IsPointer(PathEntry(m, 4)) /\ IsLeaf(PathEntry(m, 3))
          [] lv = 1 -> rec /\ IsPointer(PathEntry(m, 4)) /\ IsPointer(PathEntry(m, 3))
                           /\ IsLeaf(PathEntry(m, 2))

\* One access to the table of a level through its alias.
Touch(m, lv) ==
    IF ~Dereferenceable(m, lv) THEN [m EXCEPT !.status = "fault"]
    ELSE IF m.stale \cap ((lv + 1) .. 4) # {} THEN [m EXCEPT !.unfenced = TRUE]
    ELSE m

WriteEntry(m, lv, e) ==
    [m EXCEPT !.mem[TableFrame(m, lv)][PathIndex(m, lv)] = e,
              !.stale = @ \cup {lv}]

\* ------------------------------------------- the closures passed to edit_p1

\* MapToLeaf with the write lost: Ok is returned and nothing is installed.
MapToLeaf_NoInstall(m) ==
    IF ~is_unused(PathEntry(m, m.leaf))
    THEN [m EXCEPT !.ret = "PageAlreadyMapped"]
    ELSE [m EXCEPT !.ret = "Ok"]

\* MapToLeaf without the is_unused test: a present entry is overwritten.
MapToLeaf_Overwrite(m) ==
    [WriteEntry(m, m.leaf, set(m.frame, m.flags)) EXCEPT !.ret = "Ok"]

\* map_to's closure: reject a present leaf entry, else install the mapping.
MapToLeaf(m) ==
    IF ~is_unused(PathEntry(m, m.leaf))
    THEN [m EXCEPT !.ret = "PageAlreadyMapped"]
    ELSE [WriteEntry(m, m.leaf, set(m.frame, m.flags)) EXCEPT !.ret = "Ok"]

\* UnmapLeaf without set_unused: the frame is returned, the entry stays.
UnmapLeaf_KeepEntry(m) ==
    IF VALID \notin PathEntry(m, m.leaf).flags
    THEN [m EXCEPT !.ret = "PageNotMapped"]
    ELSE [m EXCEPT !.ret = "Ok", !.rframe = PathEntry(m, m.leaf).frame]

\* unmap's closure: a leaf entry without VALID is not mapped; else return
\* its frame and clear it.
UnmapLeaf(m) ==
    IF VALID \notin PathEntry(m, m.leaf).flags
    THEN [m EXCEPT !.ret = "PageNotMapped"]
    ELSE [WriteEntry(m, m.leaf, set_unused) EXCEPT
              !.ret = "Ok", !.rframe = PathEntry(m, m.leaf).frame]

\* translate_page's closure: the frame of a present leaf entry.
TranslateLeaf(m) ==
    IF is_unused(PathEntry(m, m.leaf))
    THEN [m EXCEPT !.ret = "None"]
    ELSE [m EXCEPT !.ret = "Some", !.rframe = PathEntry(m, m.leaf).frame]

\* let ret = f(p1_table)
CallClosure(m) ==
    CASE m.f = "map_to" -> MapToLeaf(m)
      [] m.f = "unmap" -> UnmapLeaf(m)
      [] m.f = "translate_page" -> TranslateLeaf(m)

\* ---------------------------------------------------------- the instructions

(* One instruction per source statement.  lv names the level of the path   *)
(* entry (4: root[p4_index], 3: p3_table[p3_index], 2: p2_table[p2_index], *)
(* 1: p1_table[p1_index]) or of the table (3: p3_table, ...); to names a   *)
(* label or a returned value.                                              *)
I(op, lv, to) == [op |-> op, lv |-> lv, to |-> to]

\* X[i].flags_mut().insert(F::READABLE | F::WRITABLE)
Ins(lv) == I("ins", lv, "")
\* X[i].flags_mut().remove(F::READABLE | F::WRITABLE)
Rem(lv) == I("rem", lv, "")
\* sfence_vma_all()
Fence == I("fence", 0, "")
\* assert_ne!(p4_index, self.recursive_index + k)
AssertNe(k) == I("assert_ne", k, "")
\* assert!(!X[i].is_unused())
AssertUsed(lv) == I("assert_used", lv, "")
\* if X[i].is_unused() { fall through } else { to }
IfUsedGoto(lv, to) == I("br_used", lv, to)
\* if X[i].is_unused() { to }
IfUnusedGoto(lv, to) == I("br_unused", lv, to)
\* match allocator.alloc() { None => to, Some(frame) => fall through }
Alloc(to) == I("alloc", 0, to)
\* X[i].set(frame, F::VALID)
SetValid(lv) == I("set_valid", lv, "")
\* X.zero()
Zero(lv) == I("zero", lv, "")
\* let ret = f(p1_table)
CallF == I("call_f", 1, "")
\* assert!(flags.contains(F::VALID))
AssertValid(lv) == I("assert_valid", lv, "")
\* assert!(!flags.contains(F::READABLE) && !flags.contains(F::WRITABLE))
AssertNoRW(lv) == I("assert_no_rw", lv, "")
\* return v
Ret(v) == I("ret", 0, v)
\* the closure's value is the function's value
RetF == I("ret_f", 0, "")
Goto(to) == I("goto", 0, to)
Label(name) == I("label", 0, name)

\* asm::sfence_vma_all: no cached translation survives, of an alias or of
\* a data page.
sfence_vma_all(m) == [m EXCEPT !.stale = {}, !.toggled = FALSE, !.tlb = {}]

Target(code, name) ==
    CHOOSE i \in DOMAIN code : code[i].op = "label" /\ code[i].to = name

\* allocator.alloc(): a fresh frame while the allocator has one.
AllocFrame(code, m, to) ==
    IF m.budget > 0 /\ m.next \in PoolFrames
    THEN [m EXCEPT !.reg = m.next, !.next = @ + 1, !.budget = @ - 1,
                   !.allocs = @ + 1, !.pc = @ + 1]
    ELSE [m EXCEPT !.allocs = @ + 1, !.denied = TRUE,
                   !.pc = Target(code, to)]

\* The effect of the instruction at m.pc.
Exec(code, m) ==
    LET i == code[m.pc]
        t == Touch(m, i.lv)
        step(n) == [n EXCEPT !.pc = @ + 1]
        toggle(n) == step([n EXCEPT !.toggled = TRUE])
    IN  CASE i.op = "label" -> step(m)
          [] i.op = "goto" -> [m EXCEPT !.pc = Target(code, i.to)]
          [] i.op = "fence" -> step(sfence_vma_all(m))
          [] i.op = "assert_ne" ->
                IF m.p[1] = recursive_index + i.lv
                THEN [m EXCEPT !.status = "panic"] ELSE step(m)
          [] i.op = "alloc" -> AllocFrame(code, m, i.to)
          [] i.op = "ret" -> [m EXCEPT !.status = "ret", !.ret = i.to]
          [] i.op = "ret_f" -> [m EXCEPT !.status = "ret"]
          [] t.status = "fault" -> t
          [] i.op = "ins" -> toggle(WriteEntry(t, i.lv, insert_RW(PathEntry(t, i.lv))))
          [] i.op = "rem" -> toggle(WriteEntry(t, i.lv, remove_RW(PathEntry(t, i.lv))))
          [] i.op = "set_valid" -> step(WriteEntry(t, i.lv, set(t.reg, {VALID})))
          [] i.op = "zero" -> step([t EXCEPT !.mem[TableFrame(t, i.lv)] = ZeroTable])
          [] i.op = "assert_used" ->
                IF is_unused(PathEntry(t, i.lv))
                THEN [t EXCEPT !.status = "panic"] ELSE step(t)
          [] i.op = "br_used" ->
                IF is_unused(PathEntry(t, i.lv))
                THEN step(t) ELSE [t EXCEPT !.pc = Target(code, i.to)]
          [] i.op = "br_unused" ->
                IF is_unused(PathEntry(t, i.lv))
                THEN [t EXCEPT !.pc = Target(code, i.to)] ELSE step(t)
          [] i.op = "call_f" -> step(CallClosure(t))
          [] i.op = "assert_valid" ->
                IF VALID \in PathEntry(t, i.lv).flags
                THEN step(t) ELSE [t EXCEPT !.status = "panic"]
          [] i.op = "assert_no_rw" ->
                IF PathEntry(t, i.lv).flags \cap RW = {}
                THEN step(t) ELSE [t EXCEPT !.status = "panic"]

RECURSIVE RunFrom(_, _)
RunFrom(code, m) ==
    IF m.status # "run" THEN m ELSE RunFrom(code, Exec(code, m))

\* A call of the function whose code is given, run to its return.
Call(code, m) == RunFrom(code, [m EXCEPT !.pc = 1, !.status = "run"])

\* ------------------------------------------------- create_p1_if_not_exist

\* create_p3_table without the assertion of line 222: slot
\* recursive_index + 1 is taken for an ordinary slot.
create_p3_table_OneAssert ==
    << AssertNe(0),
       IfUsedGoto(4, "p4_used"),
       Alloc("p4_none"),
       SetValid(4),
       Ins(4), Fence,
       Zero(3), Fence,
       Goto("p3"),
       Label("p4_none"),
       Ret("FrameAllocationFailed"),
       Label("p4_used"),
       Ins(4), Fence,
       Label("p3") >>

\* Lines 221-247: the reserved-slot assertions and the level-4 entry.
create_p3_table ==
    << AssertNe(0),                     \* 221
       AssertNe(1),                     \* 222
       IfUsedGoto(4, "p4_used"),        \* 231
       Alloc("p4_none"),                \* 232
       SetValid(4),                     \* 237
       Ins(4), Fence,                   \* 238-239
       Zero(3), Fence,                  \* 240-241
       Goto("p3"),
       Label("p4_none"),
       Ret("FrameAllocationFailed"),    \* 234
       Label("p4_used"),
       Ins(4), Fence,                   \* 245-246
       Label("p3") >>

\* Lines 256-258: no frame for the level-2 table.
create_p2_none ==
    << Label("p3_none"),
       Rem(4), Fence,                   \* 256-257
       Ret("FrameAllocationFailed") >>  \* 258

\* create_p2_table without the p2_table.zero() of line 266: the new level-2
\* table keeps what its frame held.
create_p2_table_NoZero ==
    << IfUsedGoto(3, "p3_used"),
       Alloc("p3_none"),
       SetValid(3),
       Ins(3), Fence,
       Rem(4), Fence,
       Goto("p2") >>
    \o create_p2_none \o
    << Label("p3_used"),
       Ins(3), Fence,
       Rem(4), Fence,
       Label("p2") >>

\* Lines 253-274: the level-3 entry.
create_p2_table ==
    << IfUsedGoto(3, "p3_used"),        \* 253
       Alloc("p3_none"),                \* 254
       SetValid(3),                     \* 261
       Ins(3), Fence,                   \* 262-263
       Rem(4), Fence,                   \* 264-265
       Zero(2),                         \* 266
       Goto("p2") >>
    \o create_p2_none \o
    << Label("p3_used"),
       Ins(3), Fence,                   \* 270-271
       Rem(4), Fence,                   \* 272-273
       Label("p2") >>

\* create_p1_none without line 285: the grant on the level-3 entry stays.
create_p1_none_NoRollback ==
    << Label("p2_none"),
       Ins(4), Fence,
       Rem(4), Fence,
       Ret("FrameAllocationFailed") >>

\* Lines 283-289: no frame for the level-1 table.
create_p1_none ==
    << Label("p2_none"),
       Ins(4), Fence,                   \* 283-284
       Rem(3), Fence,                   \* 285-286
       Rem(4), Fence,                   \* 287-288
       Ret("FrameAllocationFailed") >>  \* 289

\* create_p1_table without the is_unused test of line 280: a frame is
\* requested for the level-1 table whether or not there is one.
create_p1_table_AlwaysAlloc ==
    << Alloc("p2_none"),
       SetValid(2),
       Ins(2), Fence,
       Ins(4), Fence,
       Rem(3), Fence,
       Rem(4), Fence,
       Zero(1),
       Goto("restore") >>
    \o create_p1_none \o
    << Label("restore") >>

\* create_p1_table without the p1_table.zero() of line 301: the new level-1
\* table keeps what its frame held.
create_p1_table_NoZero ==
    << IfUsedGoto(2, "p2_used"),
       Alloc("p2_none"),
       SetValid(2),
       Ins(2), Fence,
       Ins(4), Fence,
       Rem(3), Fence,
       Rem(4), Fence,
       Goto("restore") >>
    \o create_p1_none \o
    << Label("p2_used"),
       Ins(2), Fence,
       Ins(4), Fence,
       Rem(3), Fence,
       Rem(4), Fence,
       Label("restore") >>

\* Lines 280-313: the level-2 entry.
create_p1_table ==
    << IfUsedGoto(2, "p2_used"),        \* 280
       Alloc("p2_none"),                \* 281
       SetValid(2),                     \* 292
       Ins(2), Fence,                   \* 293-294
       Ins(4), Fence,                   \* 295-296
       Rem(3), Fence,                   \* 297-298
       Rem(4), Fence,                   \* 299-300
       Zero(1),                         \* 301
       Goto("restore") >>
    \o create_p1_none \o
    << Label("p2_used"),
       Ins(2), Fence,                   \* 305-306
       Ins(4), Fence,                   \* 307-308
       Rem(3), Fence,                   \* 309-310
       Rem(4), Fence,                   \* 311-312
       Label("restore") >>

\* Lines 315-332: take the grant on the level-2 entry back.
create_restore ==
    << Ins(4), Fence,                   \* 315-316
       Ins(3), Fence,                   \* 317-318
       Rem(4), Fence,                   \* 319-320
       Rem(2), Fence,                   \* 322-323
       Ins(4), Fence,                   \* 325-326
       Rem(3), Fence,                   \* 327-328
       Rem(4), Fence,                   \* 329-330
       Ret("Ok") >>                     \* 332

create_p1_if_not_exist ==
    create_p3_table \o create_p2_table \o create_p1_table \o create_restore

\* ------------------------------------------------------------------ edit_p1

\* edit_p1_descend without the grant of line 375: the level-1 table is
\* dereferenced through a level-2 entry that is not readable and writable.
edit_p1_descend_NoGrant ==
    << AssertNe(0),
       AssertNe(1),
       AssertUsed(4),
       Ins(4), Fence,
       AssertUsed(3),
       Ins(3), Fence,
       Rem(4), Fence,
       AssertUsed(2),
       Ins(4), Fence,
       Rem(3), Fence,
       Rem(4), Fence >>

\* Lines 342-382: descend to the level-1 table.
edit_p1_descend ==
    << AssertNe(0),                     \* 342
       AssertNe(1),                     \* 343
       AssertUsed(4),                   \* 348
       Ins(4), Fence,                   \* 355-356
       AssertUsed(3),                   \* 357
       Ins(3), Fence,                   \* 364-365
       Rem(4), Fence,                   \* 366-367
       AssertUsed(2),                   \* 368
       Ins(2), Fence,                   \* 375-376
       Ins(4), Fence,                   \* 377-378
       Rem(3), Fence,                   \* 379-380
       Rem(4), Fence >>                 \* 381-382

\* edit_p1_restore without line 392: the grant on the level-2 entry stays.
edit_p1_restore_KeepsP2 ==
    << Ins(4), Fence,
       Ins(3), Fence,
       Rem(4), Fence,
       Ins(4), Fence,
       Rem(3), Fence,
       Rem(4), Fence,
       RetF >>

\* edit_p1_restore without its sfence_vma_all calls: nothing is invalidated
\* after the closure ran.
edit_p1_restore_NoFence ==
    << Ins(4), Ins(3), Rem(4), Rem(2), Ins(4), Rem(3), Rem(4), RetF >>

\* Lines 386-401: take the grant on the level-2 entry back.
edit_p1_restore ==
    << Ins(4), Fence,                   \* 386-387
       Ins(3), Fence,                   \* 388-389
       Rem(4), Fence,                   \* 390-391
       Rem(2), Fence,                   \* 392-393
       Ins(4), Fence,                   \* 394-395
       Rem(3), Fence,                   \* 396-397
       Rem(4), Fence,                   \* 398-399
       RetF >>                          \* 401

edit_p1 == edit_p1_descend \o << CallF >> \o edit_p1_restore    \* 384

\* ---------------------------------------------------------------- is_mapped

\* is_mapped_p3_unused without line 434: the grant on the level-4 entry
\* stays.
is_mapped_p3_unused_NoRestore ==
    << Label("p3_unused"),
       Ret("false") >>

\* Lines 434-436, 451-457 and 476-490: the three early returns that follow
\* a grant, each taking back what was granted so far.
is_mapped_p3_unused ==
    << Label("p3_unused"),
       Rem(4), Fence,                   \* 434-435
       Ret("false") >>                  \* 436

\* is_mapped_p2_unused without line 453: the grant on the level-3 entry stays.
is_mapped_p2_unused_NoRestore ==
    << Label("p2_unused"),
       Ins(4), Fence,
       Rem(4), Fence,
       Ret("false") >>

is_mapped_p2_unused ==
    << Label("p2_unused"),
       Ins(4), Fence,                   \* 451-452
       Rem(3), Fence,                   \* 453-454
       Rem(4), Fence,                   \* 455-456
       Ret("false") >>                  \* 457

\* is_mapped_p1_unused without line 482: the grant on the level-2 entry stays.
is_mapped_p1_unused_NoRestore ==
    << Label("p1_unused"),
       Ins(4), Fence,
       Ins(3), Fence,
       Rem(4), Fence,
       Ins(4), Fence,
       Rem(3), Fence,
       Rem(4), Fence,
       Ret("false") >>

is_mapped_p1_unused ==
    << Label("p1_unused"),
       Ins(4), Fence,                   \* 476-477
       Ins(3), Fence,                   \* 478-479
       Rem(4), Fence,                   \* 480-481
       Rem(2), Fence,                   \* 482-483
       Ins(4), Fence,                   \* 484-485
       Rem(3), Fence,                   \* 486-487
       Rem(4), Fence,                   \* 488-489
       Ret("false") >>                  \* 490

\* Lines 493-507: the page is mapped.
is_mapped_true ==
    << Ins(4), Fence,                   \* 493-494
       Ins(3), Fence,                   \* 495-496
       Rem(4), Fence,                   \* 497-498
       Rem(2), Fence,                   \* 499-500
       Ins(4), Fence,                   \* 501-502
       Rem(3), Fence,                   \* 503-504
       Rem(4), Fence,                   \* 505-506
       Ret("true") >>                   \* 507

\* is_mapped_p3 without the assertions of lines 411-412: a reserved slot is
\* taken for the level-4 entry of a page.
is_mapped_p3_NoAsserts ==
    << IfUnusedGoto(4, "p4_unused"),
       Ins(4), Fence,
       IfUnusedGoto(3, "p3_unused") >>

\* Lines 411-433: the assertions, the level-4 entry and the level-3 entry.
is_mapped_p3 ==
    << AssertNe(0),                     \* 411
       AssertNe(1),                     \* 412
       IfUnusedGoto(4, "p4_unused"),    \* 420-421
       Ins(4), Fence,                   \* 431-432
       IfUnusedGoto(3, "p3_unused") >>  \* 433

\* is_mapped_p2 without line 448: the level-4 entry stays a leaf while the
\* level-2 table is read.
is_mapped_p2_KeepsP4 ==
    << Ins(3), Fence,
       IfUnusedGoto(2, "p2_unused") >>

\* Lines 446-450: the level-2 entry.
is_mapped_p2 ==
    << Ins(3), Fence,                   \* 446-447
       Rem(4), Fence,                   \* 448-449
       IfUnusedGoto(2, "p2_unused") >>  \* 450

\* is_mapped_p1 without the sfence_vma_all of line 474: the level-1 table is
\* read right after the level-4 grant is taken back.
is_mapped_p1_NoLastFence ==
    << Ins(2), Fence,
       Ins(4), Fence,
       Rem(3), Fence,
       Rem(4),
       IfUnusedGoto(1, "p1_unused") >>

\* Lines 467-475: the level-1 entry.
is_mapped_p1 ==
    << Ins(2), Fence,                   \* 467-468
       Ins(4), Fence,                   \* 469-470
       Rem(3), Fence,                   \* 471-472
       Rem(4), Fence,                   \* 473-474
       IfUnusedGoto(1, "p1_unused") >>  \* 475

is_mapped ==
    is_mapped_p3 \o is_mapped_p2 \o is_mapped_p1 \o is_mapped_true
    \o << Label("p4_unused"), Ret("false") >>    \* 421
    \o is_mapped_p3_unused \o is_mapped_p2_unused \o is_mapped_p1_unused

\* --------------------------------------------------------------- the Mapper

\* The call ended in a failed assertion or a fault: nothing returns.
Aborted(m) == m.status # "ret"

\* map_to without the ? of line 569: edit_p1 is called whatever
\* create_p1_if_not_exist returned.
map_to_Unchecked(m) ==
    LET c == Call(create_p1_if_not_exist, m)
    IN  IF Aborted(c) THEN c
        ELSE Call(edit_p1, [c EXCEPT !.f = "map_to"])

\* Mapper::map_to (riscv64), lines 560-582.
map_to(m) ==
    LET c == Call(create_p1_if_not_exist, m)
    IN  IF Aborted(c) \/ c.ret # "Ok" THEN c            \* the ? of line 569
        ELSE Call(edit_p1, [c EXCEPT !.f = "map_to"])

\* unmap that, having cleared the leaf entry, also gives the level-1 table
\* up: the level-2 entry that points at it is set unused.
unmap_FreesTable(m) ==
    LET c == Call(is_mapped, m)
        r == Call(edit_p1, [c EXCEPT !.f = "unmap"])
    IN  IF Aborted(c) THEN c
        ELSE IF c.ret = "false" THEN [c EXCEPT !.ret = "PageNotMapped"]
        ELSE IF r.ret # "Ok" THEN r
        ELSE [r EXCEPT !.mem[TableFrame(r, 2)][PathIndex(r, 2)] = set_unused]

\* Mapper::unmap (riscv64), lines 584-603.
unmap(m) ==
    LET c == Call(is_mapped, m)
    IN  IF Aborted(c) THEN c
        ELSE IF c.ret = "false" THEN [c EXCEPT !.ret = "PageNotMapped"]
        ELSE Call(edit_p1, [c EXCEPT !.f = "unmap"])

\* Mapper::translate_page (riscv64), lines 605-623.
translate_page(m) ==
    LET c == Call(is_mapped, m)
    IN  IF Aborted(c) THEN c
        ELSE IF c.ret = "false" THEN [c EXCEPT !.ret = "None"]
        ELSE Call(edit_p1, [c EXCEPT !.f = "translate_page"])

\* PageOfFrame with the indices taken from the wrong end of the number.
PageOfFrame_Reversed(n) ==
    << n % NumIdx,
       (n \div NumIdx) % NumIdx,
       (n \div (NumIdx * NumIdx)) % NumIdx,
       (n \div (NumIdx * NumIdx * NumIdx)) % NumIdx >>

\* Page::of_addr(VirtAddr::new(frame.start_address().as_usize())): the page
\* with the frame's number, split into its four table indices.
PageOfFrame(n) ==
    << (n \div (NumIdx * NumIdx * NumIdx)) % NumIdx,
       (n \div (NumIdx * NumIdx)) % NumIdx,
       (n \div NumIdx) % NumIdx,
       n % NumIdx >>

\* identity_map that takes the page after the frame's address.
identity_map_NextPage(m) == map_to([m EXCEPT !.p = PageOfFrame(m.frame + 1)])

\* Mapper::identity_map, lines 26-31.
identity_map(m) == map_to([m EXCEPT !.p = PageOfFrame(m.frame)])

\* ------------------------------------------------------------------ inputs

\* "At most three frames are required": the most one map_to allocates.
FramesPerMap == 3

\* Pages whose top-level index is an ordinary slot: two that share a
\* level-1 table, and one each that parts from them at level 2, 3 and 4.
NormalPages ==
    { <<0, 0, 0, 0>>, <<0, 0, 0, 1>>, <<0, 0, 1, 0>>, <<0, 1, 0, 0>>,
      <<1, 0, 0, 0>> }

\* Pages whose top-level index is one of the two reserved slots.
ReservedPages ==
    { <<recursive_index, 0, 0, 0>>, <<recursive_index + 1, 0, 0, 0>> }

Pages == NormalPages \cup ReservedPages

\* The flags a caller passes to map_to.
LeafFlags == { {}, {VALID, READABLE, WRITABLE} }

\* What the allocator passed to one call can still deliver.
Budgets == 0 .. FramesPerMap

\* ------------------------------------------------------------------- state

VARIABLES
    mem,     \* physical memory: frame -> table
    next,    \* the frame the allocator hands out next
    last,    \* the last completed call: what was asked and what came back
    nops,    \* calls made so far
    tlb,     \* the translations of data pages the TLB holds
    run      \* per thread of control, the walker call it is inside of

vars == << mem, next, last, nops, tlb, run >>

\* Threads of control that may call into the same RecursivePageTable.
Walkers == {1, 2}

\* A call as a thread keeps it between its steps: the tables, the allocator
\* and the TLB are the shared ones and not part of it.
Strip(m) == [m EXCEPT !.mem = << >>, !.next = 0, !.tlb = {}]

\* A thread that is in no call:
\*   op          the public operation it is inside of
\*   code        the walker function it is inside of
\*   interfered  another thread changed an entry on the path of its page
\*               while it was inside its call
\*   m           the state of its call
NoWalker ==
    [op |-> "none", code |-> "none", interfered |-> FALSE,
     m |-> [Strip(NewCall(<< >>, 0, 0, <<0, 0, 0, 0>>, 0, {}))
               EXCEPT !.status = "idle"]]

\* The root table handed to RecursivePageTable::new: the two recursion
\* entries of lines 187-193 and nothing else.
RootTable ==
    [i \in Idx |->
        IF i = recursive_index THEN Entry(RootFrame, {VALID})
        ELSE IF i = recursive_index + 1
             THEN Entry(RootFrame, {VALID, READABLE, WRITABLE})
        ELSE ZeroEntry]

NoCall ==
    [op |-> "none", p |-> <<0, 0, 0, 0>>, frame |-> 0, flags |-> {},
     status |-> "ret", ret |-> "none", rframe |-> 0, allocs |-> 0,
     denied |-> FALSE, unfenced |-> FALSE, stale |-> {}]

\* What a finished call leaves in last.
Done(op, m) ==
    [op |-> op, p |-> m.p, frame |-> m.frame, flags |-> m.flags,
     status |-> m.status, ret |-> m.ret, rframe |-> m.rframe,
     allocs |-> m.allocs, denied |-> m.denied, unfenced |-> m.unfenced,
     stale |-> m.stale]

\* Memory after construction: the root table, data frames, and the
\* allocator's frames, which were never zeroed and hold stale words.
InitMem(root) ==
    [f \in AllFrames |->
        IF f = RootFrame THEN root
        ELSE IF f \in PoolFrames THEN GarbageTable
        ELSE ZeroTable]

Init ==
    /\ mem = InitMem(RootTable)
    /\ next = RootFrame + 1
    /\ last = NoCall
    /\ nops = 0
    /\ tlb = {}
    /\ run = [w \in Walkers |-> NoWalker]

\* A failed assertion or a fault ends the program.
CanCall == nops < MaxOps /\ last.status = "ret"

\* A call on the tables, the allocator and the TLB as they are.
Start(budget, p, frame, flags) ==
    [NewCall(mem, next, budget, p, frame, flags) EXCEPT !.tlb = tlb]

Finish(op, m) ==
    /\ mem' = m.mem
    /\ next' = m.next
    /\ last' = Done(op, m)
    /\ nops' = nops + 1
    /\ tlb' = m.tlb
    /\ UNCHANGED run

MapTo ==
    /\ CanCall
    /\ \E p \in Pages, fr \in DataFrames, fl \in LeafFlags, b \in Budgets :
          Finish("map_to", map_to(Start(b, p, fr, fl)))

Unmap ==
    /\ CanCall
    /\ \E p \in Pages :
          Finish("unmap", unmap(Start(0, p, 0, {})))

TranslatePage ==
    /\ CanCall
    /\ \E p \in Pages :
          Finish("translate_page", translate_page(Start(0, p, 0, {})))

IdentityMap ==
    /\ CanCall
    /\ \E fr \in DataFrames, fl \in LeafFlags, b \in Budgets :
          Finish("identity_map",
                 identity_map(Start(b, <<0, 0, 0, 0>>, fr, fl)))

Next == MapTo \/ Unmap \/ TranslatePage \/ IdentityMap

Spec == Init /\ [][Next]_vars

\* ------------------------------------------------------------- the claims

\* A call on the current tables that allocates nothing.
Query(p) == NewCall(mem, next, 0, p, 0, {})
QueryNext(p) == NewCall(mem', next', 0, p, 0, {})

\* translate_page(p) returned Some(fr).
IsSome(r, fr) == \A v \in {r} : v.status = "ret" /\ v.ret = "Some" /\ v.rframe = fr
\* translate_page(p) returned None.
IsNone(r) == \A v \in {r} : v.status = "ret" /\ v.ret = "None"

\* The last call was map_to and returned Ok.
MapToOk == last.op = "map_to" /\ last.status = "ret" /\ last.ret = "Ok"

\* The word map_to wrote is not the all-zero word of an unused entry.
WroteNonZero == last.frame # 0 \/ last.flags # {}

\* C1 as stated: after map_to(P, F, flags, alloc) returned Ok, for any frame
\* and any flags, translate_page(P) returns Some(F).
C1_AnyFlags ==
    MapToOk => IsSome(translate_page(Query(last.p)), last.frame)

\* C1, amended: after map_to(P, F, flags, alloc) returned Ok on a page with
\* an ordinary top-level index, translate_page(P) returns Some(F), provided
\* F is not frame 0 or flags is not empty.
C1_MapThenTranslate ==
    (MapToOk /\ WroteNonZero)
        => /\ last.p[1] \notin {recursive_index, recursive_index + 1}
           /\ IsSome(translate_page(Query(last.p)), last.frame)

C1_Witness ==
    /\ MapToOk /\ WroteNonZero /\ VALID \notin last.flags
    /\ IsSome(translate_page(Query(last.p)), last.frame)

\* unmap(P) on the current tables returns Ok((fr, _)) and translate_page(P)
\* on the tables it leaves returns None.
UnmapReturnsThenNone(p, fr) ==
    \A u \in {unmap(Query(p))} :
        /\ u.status = "ret" /\ u.ret = "Ok" /\ u.rframe = fr
        /\ IsNone(translate_page(NewCall(u.mem, u.next, 0, p, 0, {})))

C3_NoDoubleMap ==
    [][ last'.op = "map_to"
          => \A before \in {translate_page(Query(last'.p))} :
                before.ret = "Some"
                  => /\ last'.status = "ret" /\ last'.ret = "PageAlreadyMapped"
                     /\ PathEntry(QueryNext(last'.p), 1)
                          = PathEntry(Query(last'.p), 1)
                     /\ IsSome(translate_page(QueryNext(last'.p)),
                               before.rframe) ]_vars

C3_Witness ==
    /\ last.op = "map_to" /\ last.ret = "PageAlreadyMapped"
    /\ translate_page(Query(last.p)).ret = "Some"
    /\ translate_page(Query(last.p)).rframe # last.frame

\* Some entry on the path of p, from the root down to the leaf, is unused.
PathHasUnused(m) ==
    \/ is_unused(PathEntry(m, 4))
    \/ is_unused(PathEntry(m, 3))
    \/ is_unused(PathEntry(m, 2))
    \/ is_unused(PathEntry(m, 1))

\* unmap returned PageNotMapped and left memory and the allocator alone.
PhantomUnmap ==
    /\ last'.status = "ret" /\ last'.ret = "PageNotMapped"
    /\ mem' = mem /\ next' = next /\ last'.allocs = 0

TablesBelow(frames, slots) ==
    { e.frame : e \in { mem[f][i] : f \in frames, i \in slots }
                        \ {ZeroEntry} }

OrdinarySlots == Idx \ {recursive_index, recursive_index + 1}
Level3Tables == TablesBelow({RootFrame}, OrdinarySlots)
Level2Tables == TablesBelow(Level3Tables, Idx)

\* No level-4, level-3 or level-2 entry is readable or writable.
WindowClosed ==
    /\ \A i \in OrdinarySlots : mem[RootFrame][i].flags \cap RW = {}
    /\ \A f \in Level3Tables \cup Level2Tables, i \in Idx :
          mem[f][i].flags \cap RW = {}

\* C5: from a root table without elevated entries, after every completed
\* public operation, whatever it returned, every level-4, level-3 and
\* level-2 entry has READABLE and WRITABLE cleared.
C5_PermissionWindow == WindowClosed

C5_Witness ==
    /\ last.op = "unmap" /\ last.ret = "Ok"
    /\ Level2Tables # {}

\* The same map_to again, with an allocator that has FramesPerMap frames.
Retry == map_to(NewCall(mem, next, FramesPerMap, last.p, last.frame, last.flags))

\* C6: when the allocator returns None inside create_p1_if_not_exist, at
\* whichever of the three allocations, map_to returns FrameAllocationFailed,
\* no level-4, level-3 or level-2 entry is left readable or writable, the
\* page still translates to None, and the same map_to with an allocator
\* that does not run out returns Ok.
C6_ExhaustionAtomic ==
    (last.op = "map_to" /\ last.denied)
        => /\ last.status = "ret" /\ last.ret = "FrameAllocationFailed"
           /\ WindowClosed
           /\ IsNone(translate_page(Query(last.p)))
           /\ \A r \in {Retry} :
                  ~r.denied => r.status = "ret" /\ r.ret = "Ok"

\* The third allocation of one call failed, after two tables were installed,
\* and the retry gets the frame it needs.
C6_Witness ==
    /\ last.op = "map_to" /\ last.denied /\ last.allocs = 3
    /\ ~is_unused(PathEntry(Query(last.p), 3))
    /\ is_unused(PathEntry(Query(last.p), 2))
    /\ ~Retry.denied /\ Retry.allocs = 1

\* translate_page returned Some(frame) or None.
TranslateReturned ==
    last.status = "ret" /\ last.ret \in {"Some", "None"}

\* C7 as stated: translate_page returns Some(frame) or None for every page,
\* those in the two reserved slots included, and fails no assertion.
C7_EveryPage == last.op = "translate_page" => TranslateReturned

\* C7, amended: translate_page returns Some(frame) or None and fails no
\* assertion for every page whose top-level index is neither
\* recursive_index nor recursive_index + 1.
C7_TranslateTotal ==
    (last.op = "translate_page" /\ last.p \in NormalPages) => TranslateReturned

C7_Witness ==
    /\ last.op = "translate_page" /\ last.p \in NormalPages
    /\ last.status = "ret" /\ last.ret = "Some"

\* C8: translate_page changes no entry of any table and never calls the
\* allocator, and a second translate_page of the same page right after it
\* returns what the first returned.
C8_IdempotentTranslate ==
    [][ /\ last'.op = "translate_page"
            => /\ mem' = mem /\ next' = next /\ last'.allocs = 0
               /\ \A again \in {translate_page(QueryNext(last'.p))} :
                      /\ again.status = last'.status
                      /\ again.ret = last'.ret
                      /\ again.rframe = last'.rframe
                      /\ again.mem = mem' /\ again.allocs = 0
        /\ (last.op = "translate_page" /\ last'.op = "translate_page"
              /\ last'.p = last.p)
            => (last'.ret = last.ret /\ last'.rframe = last.rframe) ]_vars

C8_Witness ==
    /\ last.op = "translate_page" /\ last.ret = "Some"
    /\ Level2Tables # {}

\* ------------------------------------------------ a root with a huge page

\* A page under the root slot that maps a huge page.
HugePage == <<1, 0, 0, 0>>

\* A root table that, besides the recursion entries, maps a huge page: a
\* valid level-4 entry that is itself readable and writable.
HugeRootTable ==
    [RootTable EXCEPT ![HugePage[1]] = Entry(0, {VALID, READABLE, WRITABLE})]

InitHuge ==
    /\ mem = InitMem(HugeRootTable)
    /\ next = RootFrame + 1
    /\ last = NoCall
    /\ nops = 0
    /\ tlb = {}
    /\ run = [w \in Walkers |-> NoWalker]

SpecHuge == InitHuge /\ [][Next]_vars

\* The first entry on the path of the page that is not a pointer to a
\* table is a level-4, level-3 or level-2 entry that maps a huge page.
HugeAncestor(m) ==
    \/ IsLeaf(PathEntry(m, 4))
    \/ IsPointer(PathEntry(m, 4)) /\ IsLeaf(PathEntry(m, 3))
    \/ IsPointer(PathEntry(m, 4)) /\ IsPointer(PathEntry(m, 3))
         /\ IsLeaf(PathEntry(m, 2))

\* C9: when an upper-level entry on the path of P maps a huge page, map_to(P)
\* and unmap(P) return ParentEntryHugePage.
C9_ParentEntryHugePage ==
    [][ (last'.op \in {"map_to", "unmap"} /\ last'.p \in NormalPages
           /\ HugeAncestor(Query(last'.p)))
          => (last'.status = "ret" /\ last'.ret = "ParentEntryHugePage") ]_vars

\* ------------------------------------------------------------ identity_map

\* The number of a page: its virtual address over the page size.
PageNumber(p) ==
    ((p[1] * NumIdx + p[2]) * NumIdx + p[3]) * NumIdx + p[4]

\* For every frame, the page whose virtual address equals the start address
\* of the frame.
PageAtAddressOf ==
    [fr \in AllFrames |->
        CHOOSE p \in Idx \X Idx \X Idx \X Idx : PageNumber(p) = fr]

PageAt(fr) == PageAtAddressOf[fr]

\* identity_map did to memory and the allocator, and returned, what map_to
\* of page p does with an allocator that delivers as many frames: the ones
\* it delivered before it said None, or as many as a map_to can ask for.
LikeMapTo(p) ==
    LET b == IF last'.denied THEN next' - next ELSE FramesPerMap
    IN  \A r \in {map_to(NewCall(mem, next, b, p, last'.frame, last'.flags))} :
            /\ mem' = r.mem /\ next' = r.next
            /\ last'.status = r.status /\ last'.ret = r.ret
            /\ last'.allocs = r.allocs /\ last'.denied = r.denied

\* identity_map of frame F: it acted as map_to of the page at F's start
\* address and, when asked to, left that page translating to Some(F).
IdentityMapActs(whenOk) ==
    LET page == PageAt(last'.frame)
    IN  /\ LikeMapTo(page)
        /\ (last'.ret = "Ok" /\ whenOk
              => IsSome(translate_page(QueryNext(page)), last'.frame))

\* C10 as stated: identity_map(F, flags, alloc) behaves as map_to(P, F,
\* flags, alloc) for the page P at F's start address, and when it returns Ok
\* translate_page(P) returns Some(F).
C10_AnyFlags ==
    [][ last'.op = "identity_map" => IdentityMapActs(TRUE) ]_vars

\* C10, amended: identity_map(F, flags, alloc) behaves as map_to(P, F, flags,
\* alloc) for the page P at F's start address, with the same errors, and
\* when it returns Ok translate_page(P) returns Some(F), provided F is not
\* frame 0 or flags is not empty.
C10_IdentityMap ==
    [][ last'.op = "identity_map"
          => IdentityMapActs(last'.frame # 0 \/ last'.flags # {}) ]_vars

C10_Witness ==
    /\ last.op = "identity_map" /\ last.ret = "Ok" /\ last.frame # 0
    /\ IsSome(translate_page(Query(PageAt(last.frame))), last.frame)

\* ------------------------------------------------- the validating constructor

\* PageTableFlags::contains: every flag of the argument is set.
contains(flags, wanted) == wanted \subseteq flags

\* RecursivePageTable::new (riscv64), lines 175-203: table is the candidate
\* root table and page the page of its virtual address.  The tests are tried
\* in source order and the first that fails returns, so table[l + 1] is read
\* only when p1_index = l + 1 is an index of the table.
new(table, page) ==
    LET l == page[1]                                             \* 177
    IN  IF \/ page[2] # l                                        \* 181
           \/ page[3] # l                                        \* 182
           \/ page[4] # l + 1                                    \* 183
           \/ RootFrame # table[l].frame                         \* 187
           \/ RootFrame # table[l + 1].frame                     \* 188
           \/ ~contains(table[l].flags, {VALID})                 \* 190
           \/ contains(table[l].flags, {READABLE, WRITABLE})     \* 191
           \/ ~contains(table[l + 1].flags,
                        {VALID, READABLE, WRITABLE})             \* 193
        THEN "NotRecursivelyMapped"                              \* 196
        ELSE "Ok"                                                \* 199

\* Virtual addresses a candidate root table is handed over at: the recursive
\* pattern (l, l, l, l + 1) for every l, and addresses off it in one index.
TableAddresses ==
    { <<l, l, l, l + 1>> : l \in 0 .. (NumIdx - 2) }
    \cup { <<l, l, l, l>> : l \in Idx }
    \cup { <<0, 1, 0, 1>>, <<0, 0, 1, 1>>, <<1, 1, 0, 2>>,
           <<NumIdx - 1, NumIdx - 1, NumIdx - 1, 0>> }

\* What the two slots read by new may hold: the root's frame or a data
\* frame, with any of the three flags.
SlotEntries ==
    { Entry(fr, fl) : fr \in {RootFrame, 0}, fl \in SUBSET {VALID, READABLE, WRITABLE} }

\* A candidate root table: slots l and l + 1 filled, the rest unused.
CandidateTable(l, e, e1) ==
    [i \in Idx |-> IF i = l THEN e ELSE IF i = l + 1 THEN e1 ELSE ZeroEntry]

\* Before construction: a candidate table in the root's frame, its virtual
\* address kept in last.p.
InitNew ==
    /\ \E a \in TableAddresses, e \in SlotEntries, e1 \in SlotEntries :
          /\ mem = InitMem(CandidateTable(a[1], e, e1))
          /\ last = [NoCall EXCEPT !.p = a]
    /\ next = RootFrame + 1
    /\ nops = 0
    /\ tlb = {}
    /\ run = [w \in Walkers |-> NoWalker]

\* One call of RecursivePageTable::new on the candidate table.
New ==
    /\ last.op = "none"
    /\ last' = [last EXCEPT !.op = "new", !.ret = new(mem[RootFrame], last.p)]
    /\ nops' = nops + 1
    /\ UNCHANGED << mem, next, tlb, run >>

SpecNew == InitNew /\ [][New]_vars

\* The root-table invariants: the table's address is (l, l, l, l + 1), slots
\* l and l + 1 hold the active root frame, slot l is valid with READABLE and
\* WRITABLE both cleared, slot l + 1 is valid, readable and writable.
RootInvariants(table, page) ==
    LET l == page[1]
    IN  /\ page = <<l, l, l, l + 1>>
        /\ table[l].frame = RootFrame
        /\ table[l + 1].frame = RootFrame
        /\ VALID \in table[l].flags
        /\ READABLE \notin table[l].flags
        /\ WRITABLE \notin table[l].flags
        /\ {VALID, READABLE, WRITABLE} \subseteq table[l + 1].flags

\* C11: new(table) returns Ok exactly when the root-table invariants hold,
\* and Err(NotRecursivelyMapped) in every other case.
C11_NewChecksInvariants ==
    last.op = "new"
        => /\ last.ret \in {"Ok", "NotRecursivelyMapped"}
           /\ (last.ret = "Ok" <=> RootInvariants(mem[RootFrame], last.p))

\* ------------------------------------------------- the caller and the TLB

\* A translation as the TLB caches it.
Cached(page, entry) == [page |-> page, entry |-> entry]

\* asm::sfence_vma(0, addr), line 46: the cached translations of the page
\* at addr are dropped and no other.
sfence_vma(t, page) == { c \in t : c.page # page }

\* The hardware's walk for a data page succeeds: pointers down to a valid
\* leaf entry.
Walkable(m) ==
    /\ IsPointer(PathEntry(m, 4))
    /\ IsPointer(PathEntry(m, 3))
    /\ IsPointer(PathEntry(m, 2))
    /\ VALID \in PathEntry(m, 1).flags

\* The program touches a mapped page and the TLB caches its translation.
Access ==
    /\ \E p \in NormalPages :
          LET m == NewCall(mem, next, 0, p, 0, {})
          IN  /\ Walkable(m)
              /\ Cached(p, PathEntry(m, 1)) \notin tlb
              /\ tlb' = tlb \cup {Cached(p, PathEntry(m, 1))}
    /\ UNCHANGED << mem, next, last, nops, run >>

\* The caller holds the MapperFlush(page) of lines 579 and 601.
HoldsMapperFlush ==
    /\ last.op \in {"map_to", "unmap", "identity_map"}
    /\ last.status = "ret" /\ last.ret = "Ok"

\* MapperFlush::flush, lines 44-47.
Flush ==
    /\ HoldsMapperFlush
    /\ last' = [last EXCEPT !.op = "flush"]
    /\ tlb' = sfence_vma(tlb, last.p)
    /\ UNCHANGED << mem, next, nops, run >>

\* MapperFlush::ignore, line 50.
Ignore ==
    /\ HoldsMapperFlush
    /\ last' = [last EXCEPT !.op = "ignore"]
    /\ UNCHANGED << mem, next, nops, tlb, run >>

NextFlush == MapTo \/ Unmap \/ Access \/ Flush \/ Ignore

SpecFlush == Init /\ [][NextFlush]_vars

\* This step is a map_to or unmap that wrote the leaf entry and returned Ok.
ChangedPage ==
    /\ nops' = nops + 1
    /\ last'.op \in {"map_to", "unmap"}
    /\ last'.status = "ret" /\ last'.ret = "Ok"

\* This step is the caller's flush, or ignore, of the MapperFlush it holds.
Consumed(how) == last.op # how /\ last'.op = how

\* flush invalidates the page's translation and no other, ignore none.
FlushExact ==
    /\ Consumed("flush")
         => /\ tlb' = { c \in tlb : c.page # last.p }
            /\ mem' = mem
    /\ Consumed("ignore") => (tlb' = tlb /\ mem' = mem)

\* C12 as stated: map_to and unmap perform no TLB invalidation that covers
\* the changed page after the leaf entry is written (the entry is still
\* unfenced when they return, and a cached translation of the page
\* survives the call); flush invalidates exactly the page, ignore nothing.
C12_NoInvalidation ==
    [][ /\ ChangedPage
            => /\ 1 \in last'.stale
               /\ \A c \in tlb : c.page = last'.p => c \in tlb'
        /\ FlushExact ]_vars

\* C12, amended: map_to and unmap execute no sfence_vma of the page, but in
\* the 4-level walker the sfence_vma_all calls of edit_p1 that follow the
\* closure invalidate every translation, that of the changed page included,
\* before the call returns; flush invalidates exactly the page's
\* translation and ignore invalidates nothing.
C12_FencedBeforeReturn ==
    [][ /\ ChangedPage => (last'.stale = {} /\ tlb' = {})
        /\ FlushExact ]_vars

\* The caller flushed the MapperFlush of a page while the TLB held the
\* translation of another page, which is still there.
C12_Witness ==
    /\ last.op = "flush" /\ tlb # {}
    /\ \A c \in tlb : c.page # last.p
    /\ Walkable(Query(last.p))

\* ------------------------------------------------------ frames per map_to

\* The intermediate tables missing on the path of a page: all three when
\* the level-4 entry is unused, two when the level-3 entry is, one when the
\* level-2 entry is.
MissingTables(m) ==
    IF is_unused(PathEntry(m, 4)) THEN 3
    ELSE IF is_unused(PathEntry(m, 3)) THEN 2
    ELSE IF is_unused(PathEntry(m, 2)) THEN 1
    ELSE 0

\* C13: one map_to calls allocator.alloc() at most three times, never more
\* often than there are intermediate tables missing on the page's path, once
\* per missing table when the allocator does not run out, and not at all
\* when the level-4, level-3 and level-2 entries of the page are all present.
C13_AtMostThreeFrames ==
    [][ last'.op = "map_to"
          => \A missing \in {MissingTables(Query(last'.p))} :
                /\ last'.allocs <= FramesPerMap
                /\ last'.allocs <= missing
                /\ next' - next <= last'.allocs
                /\ (~last'.denied /\ last'.status = "ret")
                     => (last'.allocs = missing /\ next' - next = missing)
                /\ missing = 0 => (last'.allocs = 0 /\ next' = next) ]_vars

\* A map_to into a level-1 table that an earlier call made: Ok with no frame
\* requested, after a call that requested frames.
C13_Witness ==
    /\ last.op = "map_to" /\ last.ret = "Ok" /\ last.allocs = 0
    /\ next > RootFrame + 1

\* ------------------------------------------- tables with pages mapped

\* The tables after two map_to calls on the constructed root: pages
\* (0, 0, 0, 0) and (0, 0, 0, 1), which share their level-1 table.
TwoMapped ==
    LET all == {VALID, READABLE, WRITABLE}
        a == map_to(NewCall(InitMem(RootTable), RootFrame + 1, FramesPerMap,
                            <<0, 0, 0, 0>>, 1, all))
    IN  map_to(NewCall(a.mem, a.next, FramesPerMap, <<0, 0, 0, 1>>, 0, all))

InitMapped ==
    /\ mem = TwoMapped.mem
    /\ next = TwoMapped.next
    /\ last = Done("map_to", TwoMapped)
    /\ nops = 0
    /\ tlb = {}
    /\ run = [w \in Walkers |-> NoWalker]

SpecMapped == InitMapped /\ [][Next]_vars

\* ------------------------------------------------- unmap frees no table

Level1Tables == TablesBelow(Level2Tables, Idx)

\* The slots that hold pointers to tables: the ordinary slots of the root
\* and every slot of a level-3 or level-2 table.
TableSlots ==
    { <<RootFrame, i>> : i \in OrdinarySlots }
    \cup ((Level3Tables \cup Level2Tables) \X Idx)

\* Every installed intermediate entry is still present and points at the
\* frame it pointed at.
InstalledKept ==
    /\ \A s \in TableSlots :
          ~is_unused(mem[s[1]][s[2]])
            => /\ ~is_unused(mem'[s[1]][s[2]])
               /\ mem'[s[1]][s[2]].frame = mem[s[1]][s[2]].frame
    /\ Level3Tables \subseteq Level3Tables'
    /\ Level2Tables \subseteq Level2Tables'
    /\ Level1Tables \subseteq Level1Tables'

\* Memory as it is but for the leaf entry of the page, which is unused.
LeafCleared(m) ==
    [mem EXCEPT ![TableFrame(m, 1)][PathIndex(m, 1)] = set_unused]

\* C14: an unmap(P) that returns Ok changes the level-1 entry of P to unused
\* and no other entry of any table, the other leaf entries and the
\* intermediate entries on P's path included, and over any step of any
\* operation every installed intermediate entry stays present with the same
\* frame, so the set of installed tables never shrinks.
C14_UnmapFreesNothing ==
    [][ /\ (last'.op = "unmap" /\ last'.status = "ret" /\ last'.ret = "Ok")
            => /\ mem' = LeafCleared(Query(last'.p))
               /\ next' = next
        /\ InstalledKept ]_vars

\* unmap returned Ok, the level-1 table of the page is still installed and
\* still holds the mapping of another page.
C14_Witness ==
    /\ last.op = "unmap" /\ last.status = "ret" /\ last.ret = "Ok"
    /\ is_unused(PathEntry(Query(last.p), 1))
    /\ ~is_unused(PathEntry(Query(last.p), 2))
    /\ \E i \in Idx : ~is_unused(mem[TableFrame(Query(last.p), 1)][i])

\* ---------------------------------------------------------- reserved slots

\* C15: map_to on a page whose top-level index is recursive_index or
\* recursive_index + 1 fails an assertion: it returns no value, Ok or
\* MapToError, it has requested no frame and it has changed no table entry.
C15_ReservedSlotsAssert ==
    [][ (last'.op = "map_to"
           /\ last'.p[1] \in {recursive_index, recursive_index + 1})
          => /\ last'.status = "panic" /\ last'.ret = "none"
             /\ last'.allocs = 0 /\ next' = next
             /\ mem' = mem ]_vars

\* map_to was called on slot recursive_index + 1, with an allocator that had
\* frames to give, and failed its assertion.
C15_Witness ==
    /\ last.op = "map_to" /\ last.p[1] = recursive_index + 1
    /\ last.status = "panic"
    /\ next \in PoolFrames

\* ------------------------------------------------------- concurrent walkers

\* The code of a walker function.
CodeOf(name) ==
    CASE name = "create_p1_if_not_exist" -> create_p1_if_not_exist
      [] name = "edit_p1" -> edit_p1
      [] name = "is_mapped" -> is_mapped

\* The walker function a public operation calls first: lines 565, 586, 404.
FirstCode(op) ==
    CASE op = "map_to" -> "create_p1_if_not_exist"
      [] op = "unmap" -> "is_mapped"
      [] op = "is_mapped" -> "is_mapped"

\* Whether the operation goes on to edit_p1 when its first function has
\* returned: the ? of line 569 and the test of lines 586-589.
GoesOn(op, m) ==
    /\ m.status = "ret"
    /\ \/ op = "map_to" /\ m.ret = "Ok"
       \/ op = "unmap" /\ m.ret = "true"

\* What a first function's return means to the caller of the operation.
Returned(op, m) ==
    IF op = "unmap" /\ m.status = "ret" /\ m.ret = "false"
    THEN [m EXCEPT !.ret = "PageNotMapped"]                      \* 588
    ELSE m

\* Operations and pages of the concurrent calls: pages that share their
\* level-1 table, and one that shares only the level-4 entry with them.
WalkerOps == {"map_to", "unmap", "is_mapped"}
WalkerPages == { <<0, 0, 0, 0>>, <<0, 0, 0, 1>>, <<0, 1, 0, 0>> }

\* A fault or a failed assertion in one thread stops the kernel.
NoneAborted == \A w \in Walkers : run[w].m.status \notin {"fault", "panic"}

\* A thread enters a public operation, with an allocator that has one of
\* the given numbers of frames to give.
BeginWith(w, budgets) ==
    /\ NoneAborted
    /\ run[w].op = "none"
    /\ \E op \in WalkerOps, p \in WalkerPages, b \in budgets :
          run' = [run EXCEPT ![w] =
                    [op |-> op, code |-> FirstCode(op), interfered |-> FALSE,
                     m |-> Strip(NewCall(mem, next, b, p, 1,
                                         {VALID, READABLE, WRITABLE}))]]
    /\ UNCHANGED << mem, next, last, nops, tlb >>

Begin(w) == BeginWith(w, {FramesPerMap})

\* The entries on the path of a call's page that the walker toggles.
PathEntries(m) == << PathEntry(m, 4), PathEntry(m, 3), PathEntry(m, 2) >>

\* A thread executes the next statement of the function it is in, on the
\* shared tables; when the first function of map_to or unmap returns, the
\* thread is at the first statement of edit_p1.
Step(w) ==
    /\ NoneAborted
    /\ run[w].m.status = "run"
    /\ LET here == [run[w].m EXCEPT !.mem = mem, !.next = next, !.tlb = tlb]
           r == Exec(CodeOf(run[w].code), here)
           on == GoesOn(run[w].op, r) /\ run[w].code # "edit_p1"
           after == IF on
                    THEN [r EXCEPT !.pc = 1, !.status = "run", !.f = run[w].op]
                    ELSE IF run[w].code # "edit_p1" THEN Returned(run[w].op, r)
                    ELSE r
           changes(o) ==
               /\ run[o].m.status = "run"
               /\ PathEntries([run[o].m EXCEPT !.mem = r.mem])
                    # PathEntries([run[o].m EXCEPT !.mem = mem])
       IN  /\ mem' = r.mem
           /\ next' = r.next
           /\ tlb' = r.tlb
           /\ run' = [o \in Walkers |->
                        IF o = w
                        THEN [run[w] EXCEPT
                                 !.m = Strip(after),
                                 !.code = IF on THEN "edit_p1" ELSE @]
                        ELSE [run[o] EXCEPT
                                 !.interfered = @ \/ changes(o)]]
    /\ UNCHANGED << last, nops >>

NextWalkers == \E w \in Walkers : Begin(w) \/ Step(w)

SpecWalkers == InitMapped /\ [][NextWalkers]_vars

\* The thread dereferenced a table alias that the entries on its path did
\* not let it dereference.
Faulted(w) == run[w].m.status = "fault"

\* The table the faulting statement of a thread dereferences.
FaultLevel(w) == CodeOf(run[w].code)[run[w].m.pc].lv

\* C16: with the statements of two walker operations interleaved on one root
\* table, a thread dereferences a table alias without the grant it needs, or
\* with an ancestor grant set that it needs cleared, only when another thread
\* changed an entry on the path of its page while it was inside its call;
\* and such a state is reachable (the witness).
C16_FaultOnlyByInterference ==
    \A w \in Walkers : Faulted(w) => run[w].interfered

\* A thread inside edit_p1 dereferences the level-1 table after the other
\* thread revoked the grant on the level-2 entry they share.
C16_Witness ==
    \E w \in Walkers :
        /\ Faulted(w) /\ run[w].interfered
        /\ run[w].code = "edit_p1" /\ FaultLevel(w) = 1
        /\ ~IsLeaf(PathEntry([run[w].m EXCEPT !.mem = mem], 2))
        /\ \E o \in Walkers \ {w} : run[o].m.status = "run"

\* ------------------------------------------- what identity_map changes

\* The pages in state Mapped, among the ordinary pages and the page at the
\* address of a frame: those with every entry of their path present, the
\* leaf entry included.
MappedPages(m, n, fr) ==
    { p \in NormalPages \cup {PageAt(fr)} :
        ~PathHasUnused(NewCall(m, n, 0, p, 0, {})) }

\* C17 as stated: identity_map moves no page between Unmapped and Mapped.
C17_NonMutating ==
    [][ last'.op = "identity_map"
          => MappedPages(mem', next', last'.frame)
               = MappedPages(mem, next, last'.frame) ]_vars

\* C17, amended: translate_page changes no table entry and so moves no page
\* between Unmapped and Mapped; identity_map(F) moves no page but the page P at F's start address, P only
\* from Unmapped to Mapped and only when it returns Ok, and an identity_map
\* that returns Ok with F not frame 0 or flags not empty leaves P Mapped.
C17_IdentityMapMutates ==
    [][ /\ last'.op = "identity_map"
            => \A before \in {MappedPages(mem, next, last'.frame)},
                  after \in {MappedPages(mem', next', last'.frame)} :
                  /\ before \subseteq after
                  /\ after \ before \subseteq {PageAt(last'.frame)}
                  /\ after # before => last'.ret = "Ok"
                  /\ (last'.ret = "Ok"
                        /\ (last'.frame # 0 \/ last'.flags # {}))
                       => PageAt(last'.frame) \in after \ before
        /\ last'.op = "translate_page" => mem' = mem ]_vars

\* identity_map returned Ok into a level-1 table that was there, and the
\* page at the frame's address is Mapped.
C17_Witness ==
    /\ last.op = "identity_map" /\ last.ret = "Ok" /\ last.allocs = 0
    /\ Cardinality(MappedPages(mem, next, last.frame)) = 2
    /\ translate_page(Query(PageAt(last.frame))).ret = "Some"

\* --------------------------------------------------------- serialized calls

\* A thread enters a public operation while no other thread is inside one.
BeginSerial(w) ==
    /\ \A o \in Walkers : run[o].m.status # "run"
    /\ BeginWith(w, Budgets)

NextSerial == \E w \in Walkers : BeginSerial(w) \/ Step(w)

\* The walker statement by statement, one call at a time.
SpecSerial == Init /\ [][NextSerial]_vars

\* The statements that read or write a table.
DerefOps ==
    { "ins", "rem", "set_valid", "zero", "assert_used", "br_used",
      "br_unused", "call_f" }

\* The next statement of a thread reads or writes the table of a level.
AboutToDeref(w, lv) ==
    /\ run[w].m.status = "run"
    /\ CodeOf(run[w].code)[run[w].m.pc].op \in DerefOps
    /\ CodeOf(run[w].code)[run[w].m.pc].lv = lv

\* The state the toggle protocol promises at a dereference of the table of
\* a level through its alias: the entry that points at the table is readable
\* and writable, the entries above it on the path are neither, and every
\* toggle and every change of an entry above the table was fenced.
SafeToDeref(m, lv) ==
    /\ RW \subseteq PathEntry(m, lv + 1).flags
    /\ \A k \in (lv + 2) .. 4 : PathEntry(m, k).flags \cap RW = {}
    /\ ~m.toggled
    /\ m.stale \cap ((lv + 1) .. 4) = {}

\* C18: with calls serialized, whenever create_p1_if_not_exist, edit_p1 or
\* is_mapped is about to read or write a level-3, level-2 or level-1 table
\* through its alias, the entry pointing at that table has READABLE and
\* WRITABLE set, every entry above it on the path has them cleared, and
\* sfence_vma_all was executed after the most recent flag change; so while
\* the closure of edit_p1 runs only the level-2 entry is elevated.  No
\* dereference faults.
C18_DerefSafety ==
    \A w \in Walkers :
        /\ ~Faulted(w)
        /\ \A lv \in 1 .. 3 :
              AboutToDeref(w, lv)
                => SafeToDeref([run[w].m EXCEPT !.mem = mem], lv)

\* A thread is about to run the closure of edit_p1 on a level-1 table that
\* an earlier call installed.
C18_Witness ==
    \E w \in Walkers :
        /\ AboutToDeref(w, 1)
        /\ run[w].code = "edit_p1"
        /\ CodeOf(run[w].code)[run[w].m.pc].op = "call_f"
        /\ run[w].op = "unmap"
        /\ IsLeaf(PathEntry([run[w].m EXCEPT !.mem = mem], 2))

\* ------------------------------------------------ the 2-level walker (riscv32)

(* A page of the 2-level table is <<p2_index, p1_index, 0, 0>>.  The root   *)
(* entry root[p2_index] is the first entry of the path and the level-1     *)
(* table the table below it, so they are the walker's levels 4 and 3: the  *)
(* alias (recursive_index, p2_index) of the level-1 table is               *)
(* dereferenceable when root[recursive_index] is a pointer and             *)
(* root[p2_index] a readable and writable leaf.                            *)
(***************************************************************************)
RootEntry32 == 4
P1Table32 == 3

\* edit_p1 (riscv32), lines 156-167, around the statement that is its
\* closure; line 158 only takes the reference the later lines use.
edit_p1_rv32(f) ==
    << AssertNe(0),                     \* 159
       AssertNe(1),                     \* 160
       AssertValid(RootEntry32),        \* 161
       AssertNoRW(RootEntry32),         \* 162
       Ins(RootEntry32),                \* 163
       f,                               \* 166
       Rem(RootEntry32) >>              \* 167

\* create_p1_if_not_exist (riscv32), lines 137-152; line 146 is edit_p1 with
\* the closure |p1| p1.zero().
create_p1_if_not_exist_rv32 ==
    << AssertNe(0),                     \* 140
       AssertNe(1),                     \* 141
       IfUsedGoto(RootEntry32, "used"), \* 143
       Alloc("none"),                   \* 144
       SetValid(RootEntry32) >>         \* 145
    \o edit_p1_rv32(Zero(P1Table32)) \o \* 146
    << Label("used"),
       Ret("Ok"),                       \* 151
       Label("none"),
       Ret("FrameAllocationFailed") >>  \* 148

\* let ret = f(p1), line 166.
CallF32 == I("call_f", P1Table32, "")

\* Mapper::map_to (riscv32), lines 513-525.
map_to_rv32(m) ==
    LET c == Call(create_p1_if_not_exist_rv32, m)
    IN  IF Aborted(c) \/ c.ret # "Ok" THEN c                     \* 517
        ELSE Call(edit_p1_rv32(CallF32) \o << RetF >>,
                  [c EXCEPT !.f = "map_to"])

\* Mapper::unmap (riscv32), lines 527-541.
unmap_rv32 ==
    << IfUnusedGoto(RootEntry32, "unused") >>                    \* 529
    \o edit_p1_rv32(CallF32) \o
    << RetF,
       Label("unused"),
       Ret("PageNotMapped") >>                                   \* 530

\* Mapper::translate_page (riscv32), lines 543-555.
translate_page_rv32 ==
    << IfUnusedGoto(RootEntry32, "unused") >>                    \* 544
    \o edit_p1_rv32(CallF32) \o
    << RetF,
       Label("unused"),
       Ret("None") >>                                            \* 545

\* A call of the 2-level walker on the tables as they are.
Start32(f, budget, p, frame, flags) ==
    [Start(budget, p, frame, flags) EXCEPT !.f = f, !.leaf = P1Table32]

\* Pages of the 2-level table: two in one level-1 table, two in others,
\* and the two reserved slots.
Pages32 ==
    { <<0, 0, 0, 0>>, <<0, 1, 0, 0>>, <<1, 0, 0, 0>>, <<1, 1, 0, 0>>,
      <<recursive_index, 0, 0, 0>>, <<recursive_index + 1, 0, 0, 0>> }

MapTo32 ==
    /\ CanCall
    /\ \E p \in Pages32, fr \in DataFrames, fl \in LeafFlags, b \in {0, 1} :
          Finish("map_to", map_to_rv32(Start32("none", b, p, fr, fl)))

Unmap32 ==
    /\ CanCall
    /\ \E p \in Pages32 :
          Finish("unmap", Call(unmap_rv32, Start32("unmap", 0, p, 0, {})))

TranslatePage32 ==
    /\ CanCall
    /\ \E p \in Pages32 :
          Finish("translate_page",
                 Call(translate_page_rv32,
                      Start32("translate_page", 0, p, 0, {})))

Next32 == MapTo32 \/ Unmap32 \/ TranslatePage32

Spec32 == Init /\ [][Next32]_vars

\* C19: in the 2-level walker, edit_p1 executes a TLB invalidation after it
\* set READABLE and WRITABLE on root[p2_index] and before it dereferences
\* the level-1 table through its alias (no dereference with the change
\* unfenced), and another after it cleared them (the change of the root
\* entry is fenced when the call returns).
C19_FencesAroundDeref ==
    (last.op \in {"map_to", "unmap", "translate_page"} /\ last.status = "ret")
        => /\ ~last.unfenced
           /\ RootEntry32 \notin last.stale

\* ------------------------------------------------------- is_mapped's answer

\* The level of the first unused entry on the path of a page, from the
\* level-4 entry down; 0 when all four are present.
FirstUnused(m) ==
    IF is_unused(PathEntry(m, 4)) THEN 4
    ELSE IF is_unused(PathEntry(m, 3)) THEN 3
    ELSE IF is_unused(PathEntry(m, 2)) THEN 2
    ELSE IF is_unused(PathEntry(m, 1)) THEN 1
    ELSE 0

\* The return statement that ends the block of is_mapped under a label.
ExitOf(name) ==
    CHOOSE i \in DOMAIN is_mapped :
        /\ i > Target(is_mapped, name)
        /\ is_mapped[i].op = "ret"
        /\ \A j \in Target(is_mapped, name) .. (i - 1) : is_mapped[j].op # "ret"

\* The return statement is_mapped leaves by when the first unused entry is
\* at a level.
ExitAt(lv) ==
    CASE lv = 4 -> ExitOf("p4_unused")
      [] lv = 3 -> ExitOf("p3_unused")
      [] lv = 2 -> ExitOf("p2_unused")
      [] lv = 1 -> ExitOf("p1_unused")
      [] lv = 0 -> Target(is_mapped, "p4_unused") - 1

\* is_mapped on the current tables answers for page p as its path says, by
\* the return of the first unused level, and leaves every entry as it was.
IsMappedAnswers(p) ==
    \A r \in {Call(is_mapped, Query(p))} :
        /\ r.status = "ret"
        /\ r.ret = (IF FirstUnused(Query(p)) = 0 THEN "true" ELSE "false")
        /\ r.pc = ExitAt(FirstUnused(Query(p)))
        /\ r.mem = mem /\ r.allocs = 0
        /\ ~r.unfenced /\ r.stale = {}

\* C20: for a page whose level-4 index is not a reserved slot, is_mapped
\* returns true if and only if the level-4, level-3, level-2 and level-1
\* entries of its path are all not unused; it returns false by the return
\* at the first unused entry, and on every return path every flag it changed
\* has the value it had at entry.
C20_IsMappedExact == \A p \in NormalPages : IsMappedAnswers(p)

\* Tables on which is_mapped answers true for one page, false at the
\* level-1 entry for a second and false at the level-3 entry for a third.
C20_Witness ==
    /\ \E p \in NormalPages : Call(is_mapped, Query(p)).ret = "true"
    /\ \E p \in NormalPages :
          /\ FirstUnused(Query(p)) = 1
          /\ Call(is_mapped, Query(p)).ret = "false"
    /\ \E p \in NormalPages : FirstUnused(Query(p)) = 3

\* ------------------------------------------------- new tables are zeroed

\* The pages that differ from p in one index below the top: they share
\* with p its level-1, its level-2 or its level-3 table.
Siblings(p) ==
    { [p EXCEPT ![k] = i] : k \in 2 .. 4, i \in Idx } \ {p}

\* Page q has the table of a level on its path where page p has it.
SharesTable(q, p, lv) == \A k \in 1 .. (4 - lv) : q[k] = p[k]

\* The next statement of a thread reads or writes an entry of a table that
\* still holds what its frame held when the allocator gave it out.
UsesUnzeroed(w) ==
    \E lv \in 1 .. 3 :
        /\ AboutToDeref(w, lv)
        /\ CodeOf(run[w].code)[run[w].m.pc].op # "zero"
        /\ mem[TableFrame([run[w].m EXCEPT !.mem = mem], lv)] = GarbageTable

\* This step is the return of a thread's map_to with Ok.
MapToReturnsOk(w) ==
    /\ run[w].m.status = "run"
    /\ run'[w].m.status = "ret"
    /\ run'[w].op = "map_to" /\ run'[w].m.ret = "Ok"

\* The tables the returned map_to created, one per frame it was given, the
\* level-1 table first: each holds the entry on the page's path and is
\* unused elsewhere, and every sibling of the page that has one of them on
\* its path translates to None.
CreatedTablesZeroed(w) ==
    \A m \in {[run'[w].m EXCEPT !.mem = mem', !.next = next']} :
        /\ \A lv \in 1 .. m.allocs :
              \A i \in Idx \ {PathIndex(m, lv)} :
                  is_unused(m.mem[TableFrame(m, lv)][i])
        /\ \A q \in Siblings(m.p) :
              SharesTable(q, m.p, m.allocs)
                => IsNone(translate_page(NewCall(m.mem, m.next, 0, q, 0, {})))

\* The 2-level create_p1_if_not_exist: the first statement that touches the
\* level-1 table is p1.zero(), and the table it leaves is all unused.
CreateZeroesFirst32 ==
    LET c == create_p1_if_not_exist_rv32
        uses(i) == c[i].op \in DerefOps /\ c[i].lv = P1Table32
        r == Call(c, [NewCall(InitMem(RootTable), RootFrame + 1, 1,
                              <<0, 0, 0, 0>>, 0, {})
                         EXCEPT !.leaf = P1Table32])
    IN  /\ \E i \in DOMAIN c :
              /\ c[i].op = "zero" /\ uses(i)
              /\ \A j \in 1 .. (i - 1) : ~uses(j)
        /\ r.status = "ret" /\ r.ret = "Ok" /\ r.allocs = 1
        /\ r.mem[TableFrame(r, P1Table32)] = ZeroTable

\* C21: no statement of the walker reads or writes an entry of a newly
\* allocated table before the table was zeroed, and when a map_to that
\* created tables returns Ok, every created table is unused but for the
\* entry on the page's path, so every other page that has a created table
\* on its path translates to None.
C21_NewTablesZeroed ==
    [][ /\ \A w \in Walkers : ~UsesUnzeroed(w)'
        /\ \A w \in Walkers : MapToReturnsOk(w) => CreatedTablesZeroed(w)
        /\ CreateZeroesFirst32 ]_vars

\* A map_to that created all three tables of its page has returned Ok, in
\* frames the allocator gave out unzeroed, and a page of its level-1 table
\* translates to None.
C21_Witness ==
    \E w \in Walkers :
        /\ run[w].op = "map_to" /\ run[w].m.status = "ret"
        /\ run[w].m.ret = "Ok" /\ run[w].m.allocs = 3
        /\ \A o \in Walkers \ {w} : run[o].op = "none"
        /\ InitMem(RootTable)[next - 1] = GarbageTable
        /\ IsNone(translate_page(Query([run[w].m.p EXCEPT ![4] = 1])))

\* ------------------------------------------- the abstract map Page -> Frame

\* Flag sets that contain VALID.
ValidFlags == { {VALID}, {VALID, READABLE, WRITABLE} }

\* Calls per behaviour when only map_to and unmap are called.
MaxMapOps == MaxOps + 1

\* map_to of an ordinary page with flags that contain VALID.
MapToValid ==
    /\ nops < MaxMapOps /\ last.status = "ret"
    /\ \E p \in NormalPages, fr \in DataFrames, fl \in ValidFlags,
          b \in Budgets :
          Finish("map_to", map_to(Start(b, p, fr, fl)))

\* unmap of an ordinary page.
UnmapNormal ==
    /\ nops < MaxMapOps /\ last.status = "ret"
    /\ \E p \in NormalPages :
          Finish("unmap", unmap(Start(0, p, 0, {})))

NextMap == MapToValid \/ UnmapNormal

SpecMap == Init /\ [][NextMap]_vars

\* The value of the abstract map at a page.
AbsSome(fr) == << "Some", fr >>
AbsNone == << "None" >>

\* What translate_page returns for page q on given tables.
Translation(m, n, q) ==
    LET r == translate_page(NewCall(m, n, 0, q, 0, {}))
    IN  IF r.status # "ret" THEN << r.status >>
        ELSE IF r.ret = "Some" THEN AbsSome(r.rframe)
        ELSE << r.ret >>

\* The abstract operation: map_to(P, F) is Ok on an absent P and makes it
\* F, unmap(P) is Ok on a present P, returns its frame and makes it absent;
\* every other call fails and changes nothing.
AbsResult(op, before, fr) ==
    CASE op = "map_to" /\ before = AbsNone -> AbsSome(fr)
      [] op = "unmap" /\ before # AbsNone -> AbsNone
      [] OTHER -> before

\* This step, a map_to or unmap of page P, is a step of the abstract map as
\* translate_page shows it: P changes as the abstract operation says when the
\* call returns Ok, the call returns Ok when the abstract operation changes
\* P unless the allocator ran out, and no other page changes.
RefinesStep ==
    /\ last'.status = "ret"
    /\ \A b \in {Translation(mem, next, last'.p)},
          a \in {Translation(mem', next', last'.p)} :
          /\ b \in {AbsNone} \cup { AbsSome(fr) : fr \in AllFrames }
          /\ a = IF last'.ret = "Ok"
                 THEN AbsResult(last'.op, b, last'.frame) ELSE b
          /\ last'.ret = "Ok" => a # b
          /\ (last'.ret # "Ok" /\ ~last'.denied)
                => AbsResult(last'.op, b, last'.frame) = b
          /\ (last'.op = "unmap" /\ last'.ret = "Ok")
                => b = AbsSome(last'.rframe)
    /\ \/ mem' = mem /\ next' = next
       \/ \A q \in NormalPages \ {last'.p} :
             Translation(mem', next', q) = Translation(mem, next, q)

\* C22: translate_page shows an abstract partial map from pages to frames.
\* On the constructed table every page translates to None; over every
\* map_to and unmap of an ordinary page with flags that contain VALID,
\* translate_page(P) becomes Some(F) by a map_to(P, F) that returns Ok and
\* None by an unmap(P) that returns Ok, stays what it was when the call
\* fails, and translate_page(Q) of every other page Q stays what it was.
C22_RefinesPartialMap ==
    /\ \A q \in NormalPages : Translation(mem, next, q) = AbsNone
    /\ [][RefinesStep]_vars

\* A page mapped, unmapped and mapped again to another frame translates to
\* the frame of the last map_to.
C22_Witness ==
    /\ nops = MaxMapOps
    /\ last.op = "map_to" /\ last.ret = "Ok" /\ last.allocs = 0
    /\ last.frame = 0
    /\ Level1Tables # {}
    /\ Translation(mem, next, last.p) = AbsSome(0)
    /\ \A q \in NormalPages \ {last.p} : Translation(mem, next, q) = AbsNone

\* ------------------------------------------------- the recursion entries

\* The walker functions, each entered by the public operations.
WalkerFunctions == {"create_p1_if_not_exist", "edit_p1", "is_mapped"}

\* A walker function called for page p ends in a failed assertion, and the
\* statements it got to are the assertions on the top-level index: it read
\* and wrote no table entry.
StopsAtAssertion(name, p) ==
    \A r \in {Call(CodeOf(name), [Query(p) EXCEPT !.f = "translate_page"])} :
        /\ r.status = "panic"
        /\ \A j \in 1 .. r.pc : CodeOf(name)[j].op = "assert_ne"
        /\ r.mem = mem /\ r.allocs = 0

\* The two recursion entries are as RecursivePageTable::new found them.
EntriesAsConstructed ==
    /\ mem[RootFrame][recursive_index] = RootTable[recursive_index]
    /\ mem[RootFrame][recursive_index + 1] = RootTable[recursive_index + 1]

\* C23: after construction and after every public operation, those on pages
\* of the reserved slots included, root[recursive_index] and
\* root[recursive_index + 1] hold the frame and the flags they were
\* constructed with; create_p1_if_not_exist, edit_p1 and is_mapped, called
\* for a page of a reserved slot, fail their assertion before they read or
\* write any entry.
C23_RecursionEntriesKept ==
    /\ EntriesAsConstructed
    /\ \A name \in WalkerFunctions, p \in ReservedPages :
          StopsAtAssertion(name, p)
    /\ [][EntriesAsConstructed']_vars

\* An operation on a page of slot recursive_index failed its assertion on
\* tables that an earlier map_to had extended by three.
C23_Witness ==
    /\ last.status = "panic" /\ last.p[1] = recursive_index
    /\ last.op \in {"unmap", "translate_page"}
    /\ next = RootFrame + 1 + FramesPerMap
    /\ Level2Tables # {}
    /\ mem[RootFrame][recursive_index] = Entry(RootFrame, {VALID})

\* ------------------------------------- edit_p1's missing-ancestor assertions

\* The operations that end in edit_p1, and those of them that get there
\* through create_p1_if_not_exist.
EditingOps == {"map_to", "identity_map", "unmap", "translate_page"}
CreatingOps == {"map_to", "identity_map"}

\* The call this step completed, as it was before its edit_p1: after
\* create_p1_if_not_exist (lines 565-569) or is_mapped (586, 606), run on
\* the tables of the step's first state with the frames the step's
\* allocator delivered.
BeforeEdit ==
    LET b == IF last'.denied THEN next' - next ELSE FramesPerMap
        m == NewCall(mem, next, b, last'.p, last'.frame, last'.flags)
    IN  IF last'.op \in CreatingOps
        THEN Call(create_p1_if_not_exist, m)
        ELSE Call(is_mapped, m)

\* The operation went on to edit_p1: create_p1_if_not_exist returned Ok,
\* or is_mapped returned true.
InvokesEdit(op, c) ==
    /\ c.status = "ret"
    /\ c.ret = (IF op \in CreatingOps THEN "Ok" ELSE "true")

\* The level-4, level-3 and level-2 entries of the page are all present.
AncestorsPresent(m) ==
    \A lv \in 2 .. 4 : ~is_unused(PathEntry(m, lv))

\* C24: over every map_to, identity_map, unmap and translate_page of a page
\* with an ordinary top-level index, on tables reached from the constructed
\* root by such calls, whatever frame and flags were mapped: when the
\* operation goes on to edit_p1, the level-4, level-3 and level-2 entries on
\* the page's path are present, and the operation returns a value, failing
\* no assertion of edit_p1.
C24_AncestorsAsserted ==
    [][ (last'.op \in EditingOps /\ last'.p \in NormalPages)
          => \A c \in {BeforeEdit} :
                /\ c.status = "ret"
                /\ InvokesEdit(last'.op, c) => AncestorsPresent(c)
                /\ last'.status = "ret" ]_vars

\* unmap went on to edit_p1 for a page that an earlier map_to had mapped to
\* frame 0, in tables that call had created.
C24_Witness ==
    /\ last.op = "unmap" /\ last.ret = "Ok" /\ last.rframe = 0
    /\ last.p \in NormalPages
    /\ AncestorsPresent(Query(last.p))
    /\ is_unused(PathEntry(Query(last.p), 1))

====
